---- MODULE Spec2Model ----
(***************************************************************************)
(* A model of the osu!.db decoder of OsuStreamGen: the primitive codec of  *)
(* src/db/fmt.py, the record and header decoder of src/db/parser.py and    *)
(* the Songs collection of src/db/model.py.                                *)
(*                                                                         *)
(* Representation.  A bytes object is a sequence of 0..255.  A str is the  *)
(* sequence of its code points.  A file object is the pair (data, pos),    *)
(* pos counting the bytes already consumed.  A 4-byte or shorter integer   *)
(* is an integer; an 8-byte integer is its base-256 numeral, least         *)
(* significant digit first, without leading zero digits (TLC's integers    *)
(* are 32 bits wide).  A float is the byte string it was unpacked          *)
(* from, tagged with its struct format.  A call's outcome is the record    *)
(* [exc, none, value, pos]: the exception raised ("" when the call         *)
(* returned), whether it returned None, the value returned, the cursor     *)
(* afterwards.                                                             *)
(***************************************************************************)
EXTENDS Integers, Sequences, FiniteSets, TLC

(***************************************************************************)
(* Bounds of the explored inputs.                                          *)
(***************************************************************************)
MaxUleb == 300
MaxStrLen == 2
MaxStream == 3
MaxRamp == 18
MaxBatch == 2
MaxMaps == 3
MaxTimingpoints == 2
MaxPairs == 1

(***************************************************************************)
(* src/db/fmt.py: the byte widths.                                         *)
(***************************************************************************)
OSU_BYTE == 1
OSU_SHORT == 2
OSU_INT == 4
OSU_LONG == 8
OSU_SINGLE == 4
OSU_DOUBLE == 8
OSU_BOOLEAN == 1
OSU_DATETIME == 8

Min(a, b) == IF a < b THEN a ELSE b

\* Body(x) for x the value of e, with e evaluated once.
Bind(e, Body(_)) == CHOOSE y \in {Body(x) : x \in {e}} : TRUE

\* fileobj.read(n): the next n bytes, or as many as are left.
read(data, pos, n) == SubSeq(data, pos + 1, Min(pos + n, Len(data)))

\* The cursor after fileobj.read(n): a read moves it over the bytes it
\* returns, and leaves it where it is when it is at or beyond the end.
tell(data, pos, n) == IF pos >= Len(data) THEN pos ELSE Min(pos + n, Len(data))

\* The three ways a call ends.
Return(v, p) == [exc |-> "", none |-> FALSE, value |-> v, pos |-> p]
ReturnNone(p) == [exc |-> "", none |-> TRUE, value |-> <<>>, pos |-> p]
Raise(e, p) == [exc |-> e, none |-> FALSE, value |-> <<>>, pos |-> p]

\* int.from_bytes(bs, byteorder="little") of at most four bytes.
RECURSIVE int_from_bytes(_)
int_from_bytes(bs) ==
    IF bs = <<>> THEN 0 ELSE bs[1] + 256 * int_from_bytes(Tail(bs))

\* int.from_bytes(bs, byteorder="little") of up to eight bytes, as a numeral.
RECURSIVE long_from_bytes(_)
long_from_bytes(bs) ==
    IF bs = <<>> THEN <<>>
    ELSE IF bs[Len(bs)] = 0 THEN long_from_bytes(SubSeq(bs, 1, Len(bs) - 1))
    ELSE bs

\* Whether the conversion of a Single to a Python float, a C double, turns a
\* signalling NaN into a quiet one: it depends on the platform the
\* interpreter was built for, and is the same for the whole run.
VARIABLE quiet_nans

\* The four bytes of a Single that is a signalling NaN: the exponent all
\* ones, the first bit of the fraction clear, the rest of it not zero.
is_signalling(bs) ==
    /\ bs[4] % 128 = 127
    /\ bs[3] >= 128 /\ bs[3] < 192
    /\ ~(bs[3] = 128 /\ bs[2] = 0 /\ bs[1] = 0)

\* The quiet NaN of a signalling one: the first bit of the fraction set.
quieted(bs) == [bs EXCEPT ![3] = @ + 64]

\* struct.unpack(fmt, bs)[0] for fmt "f" (4 bytes) and "d" (8 bytes): the
\* float, as the bytes struct.pack(fmt, .) gives back for it.
struct_size(fmt) == IF fmt = "f" THEN 4 ELSE 8
struct_ok(fmt, bs) == Len(bs) = struct_size(fmt)
struct_unpack(fmt, bs) ==
    [fmt |-> fmt,
     bits |-> IF fmt = "f" /\ quiet_nans /\ is_signalling(bs) THEN quieted(bs)
              ELSE bs]

(***************************************************************************)
(* UTF-8, as str.encode("utf-8") and bytes.decode("utf-8") compute it.     *)
(***************************************************************************)
\* A code point of U+D800..U+DFFF: a str can hold it, UTF-8 cannot.
is_surrogate(cp) == cp >= 55296 /\ cp <= 57343

\* The bytes of one character that is no surrogate.
utf8_bytes(cp) ==
    IF cp < 128 THEN <<cp>>
    ELSE IF cp < 2048 THEN <<192 + (cp \div 64), 128 + (cp % 64)>>
    ELSE IF cp < 65536
         THEN <<224 + (cp \div 4096), 128 + ((cp \div 64) % 64), 128 + (cp % 64)>>
    ELSE <<240 + (cp \div 262144), 128 + ((cp \div 4096) % 64),
           128 + ((cp \div 64) % 64), 128 + (cp % 64)>>

\* chr(cp).encode("utf-8"): [ok, bs]; ok is FALSE where it raises
\* UnicodeEncodeError.
utf8_char(cp) ==
    IF is_surrogate(cp) THEN [ok |-> FALSE, bs |-> <<>>]
    ELSE [ok |-> TRUE, bs |-> utf8_bytes(cp)]

\* str.encode("utf-8"): [ok, bs]; ok is FALSE where it raises
\* UnicodeEncodeError.
RECURSIVE utf8_encode(_)
utf8_encode(string) ==
    IF string = <<>> THEN [ok |-> TRUE, bs |-> <<>>]
    ELSE LET first == utf8_char(string[1])
             rest == utf8_encode(Tail(string))
         IN IF first.ok /\ rest.ok
            THEN [ok |-> TRUE, bs |-> first.bs \o rest.bs]
            ELSE [ok |-> FALSE, bs |-> <<>>]

is_cont(b) == b >= 128 /\ b < 192

\* The number of bytes of the character a lead byte starts, 0 for no lead byte.
utf8_width(b) ==
    IF b < 128 THEN 1
    ELSE IF b >= 194 /\ b < 224 THEN 2
    ELSE IF b >= 224 /\ b < 240 THEN 3
    ELSE IF b >= 240 /\ b < 245 THEN 4
    ELSE 0

\* Whether bs starts with one well-formed character of width w.
utf8_wellformed(bs, w) ==
    /\ w > 0
    /\ Len(bs) >= w
    /\ \A i \in 2..w : is_cont(bs[i])
    /\ (bs[1] = 224 => bs[2] >= 160)
    /\ (bs[1] = 237 => bs[2] < 160)
    /\ (bs[1] = 240 => bs[2] >= 144)
    /\ (bs[1] = 244 => bs[2] < 144)

utf8_point(bs, w) ==
    IF w = 1 THEN bs[1]
    ELSE IF w = 2 THEN (bs[1] - 192) * 64 + (bs[2] - 128)
    ELSE IF w = 3
         THEN (bs[1] - 224) * 4096 + (bs[2] - 128) * 64 + (bs[3] - 128)
    ELSE (bs[1] - 240) * 262144 + (bs[2] - 128) * 4096
         + (bs[3] - 128) * 64 + (bs[4] - 128)

\* bytes.decode("utf-8"): [ok, s]; ok is FALSE where it raises UnicodeDecodeError.
RECURSIVE utf8_decode(_)
utf8_decode(bs) ==
    IF bs = <<>> THEN [ok |-> TRUE, s |-> <<>>]
    ELSE LET w == utf8_width(bs[1])
         IN IF ~utf8_wellformed(bs, w) THEN [ok |-> FALSE, s |-> <<>>]
            ELSE LET rest == utf8_decode(SubSeq(bs, w + 1, Len(bs)))
                 IN [ok |-> rest.ok,
                     s |-> IF rest.ok THEN <<utf8_point(bs, w)>> \o rest.s
                           ELSE <<>>]

(***************************************************************************)
(* src/db/fmt.py: ULEB128 and strings.                                     *)
(***************************************************************************)
\* A get_uleb128 that never sets the continuation bit.
uleb_byte_clear(integer) == integer % 128

\* One pass of the loop of get_uleb128: the byte emitted for integer.
uleb_byte(integer) ==
    IF (integer \div 128) # 0 THEN (integer % 128) + 128 ELSE integer % 128

RECURSIVE get_uleb128(_)
get_uleb128(integer) ==
    IF (integer \div 128) # 0
    THEN <<uleb_byte(integer)>> \o get_uleb128(integer \div 128)
    ELSE <<uleb_byte(integer)>>

\* The loop of parse_uleb128, entered with result and shift.
RECURSIVE uleb_loop(_, _, _, _)
uleb_loop(data, pos, result, shift) ==
    IF read(data, pos, 1) = <<>> THEN Raise("IndexError", pos)
    ELSE LET byte == read(data, pos, 1)[1]
             r == result + (byte % 128) * (2 ^ shift)
         IN IF (byte \div 128) = 0 THEN Return(r, pos + 1)
            ELSE uleb_loop(data, pos + 1, r, shift + 7)

parse_uleb128(data, pos) == uleb_loop(data, pos, 0, 0)

\* The length get_string writes before the payload.
string_length(string) == Len(string)

\* get_string(string): the outcome, its value the bytes; no stream is read,
\* the cursor of the outcome is 0.
get_string(string) ==
    IF string = <<>> THEN Return(<<0>>, 0)
    ELSE LET payload == utf8_encode(string)
         IN IF payload.ok
            THEN Return(<<11>> \o get_uleb128(string_length(string))
                              \o payload.bs, 0)
            ELSE Raise("UnicodeEncodeError", 0)

\* The branch of parse_string for indicator 11.
parse_payload(data, pos) ==
    LET uleb == parse_uleb128(data, pos)
    IN IF uleb.exc # "" THEN uleb
       ELSE LET s == utf8_decode(read(data, uleb.pos, uleb.value))
                p == tell(data, uleb.pos, uleb.value)
            IN IF s.ok THEN Return(s.s, p) ELSE Raise("UnicodeDecodeError", p)

\* A parse_string that takes any other indicator for the empty string.
parse_string_lenient(data, pos) ==
    LET indicator == read(data, pos, 1)
        p == tell(data, pos, 1)
    IN IF Len(indicator) # 1 THEN Raise("TypeError", p)
       ELSE IF indicator[1] = 11 THEN parse_payload(data, p)
       ELSE Return(<<>>, p)

parse_string(data, pos) ==
    LET indicator == read(data, pos, 1)
        p == tell(data, pos, 1)
    IN IF Len(indicator) # 1 THEN Raise("TypeError", p)
       ELSE IF indicator[1] = 0 THEN Return(<<>>, p)
       ELSE IF indicator[1] = 11 THEN parse_payload(data, p)
       ELSE Raise("ValueError", p)

(***************************************************************************)
(* src/db/fmt.py: read_type and read_batch.                                *)
(***************************************************************************)
Kinds ==
    {"Int", "String", "Byte", "Short", "Long", "Single", "Double", "Boolean",
     "IntDoublepair", "Timingpoint", "DateTime"}

\* What read_type yields for a kind it has no branch for.
NoneValue == "None"

\* The else branch of read_type: a warning is logged and the function ends.
read_unknown(type, data, pos) == [ReturnNone(pos) EXCEPT !.value = NoneValue]

\* bs != b"\x00"
as_bool(bs) == bs # <<0>>

\* A branch that reads n bytes and converts them with int.from_bytes.
read_int(data, pos, n) ==
    Return(int_from_bytes(read(data, pos, n)), tell(data, pos, n))

read_long(data, pos, n) ==
    Return(long_from_bytes(read(data, pos, n)), tell(data, pos, n))

\* A branch that reads the bytes of one float and unpacks them.
read_float(fmt, data, pos, n) ==
    LET bs == read(data, pos, n)
        p == tell(data, pos, n)
    IN IF struct_ok(fmt, bs) THEN Return(struct_unpack(fmt, bs), p)
       ELSE Raise("struct.error", p)

read_boolean(data, pos) ==
    Return(as_bool(read(data, pos, OSU_BOOLEAN)), tell(data, pos, OSU_BOOLEAN))

read_pair(data, pos) ==
    LET p1 == tell(data, pos, OSU_BYTE)
        i == read_int(data, p1, OSU_INT)
        p3 == tell(data, i.pos, OSU_BYTE)
        d == read_float("d", data, p3, OSU_DOUBLE)
    IN IF d.exc # "" THEN d ELSE Return(<<i.value, d.value>>, d.pos)

\* A timing point read without its Boolean: two Doubles, the flag taken as set.
read_timingpoint_short(data, pos) ==
    LET bpm == read_float("d", data, pos, OSU_DOUBLE)
        offset == read_float("d", data, bpm.pos, OSU_DOUBLE)
    IN IF bpm.exc # "" THEN bpm
       ELSE IF offset.exc # "" THEN offset
       ELSE Return(<<bpm.value, offset.value, TRUE>>, offset.pos)

read_timingpoint(data, pos) ==
    LET bpm == read_float("d", data, pos, OSU_DOUBLE)
        offset == read_float("d", data, bpm.pos, OSU_DOUBLE)
        uninherited == read_boolean(data, offset.pos)
    IN IF bpm.exc # "" THEN bpm
       ELSE IF offset.exc # "" THEN offset
       ELSE Return(<<bpm.value, offset.value, uninherited.value>>,
                   uninherited.pos)

read_type(type, data, pos) ==
    IF type = "Int" THEN read_int(data, pos, OSU_INT)
    ELSE IF type = "String" THEN parse_string(data, pos)
    ELSE IF type = "Byte"
         THEN Return(read(data, pos, OSU_BYTE), tell(data, pos, OSU_BYTE))
    ELSE IF type = "Short" THEN read_int(data, pos, OSU_SHORT)
    ELSE IF type = "Long" THEN read_long(data, pos, OSU_LONG)
    ELSE IF type = "Single" THEN read_float("f", data, pos, OSU_SINGLE)
    ELSE IF type = "Double" THEN read_float("d", data, pos, OSU_DOUBLE)
    ELSE IF type = "Boolean" THEN read_boolean(data, pos)
    ELSE IF type = "IntDoublepair" THEN read_pair(data, pos)
    ELSE IF type = "Timingpoint" THEN read_timingpoint(data, pos)
    ELSE IF type = "DateTime" THEN read_long(data, pos, OSU_DATETIME)
    ELSE read_unknown(type, data, pos)

\* [read_type(type, fobj) for _ in range(cnt)], the list built so far in acc.
RECURSIVE comprehension(_, _, _, _, _)
comprehension(cnt, type, data, pos, acc) ==
    IF cnt <= 0 THEN Return(acc, pos)
    ELSE Bind(read_type(type, data, pos),
              LAMBDA r :
                  IF r.exc # "" THEN r
                  ELSE comprehension(cnt - 1, type, data, r.pos,
                                     Append(acc, r.value)))

read_batch(cnt, type, data, pos) == comprehension(cnt, type, data, pos, <<>>)

(***************************************************************************)
(* src/db/parser.py: parse_beatmap.  A reader is the decoder's progress    *)
(* through one function body: the cursor, the exception that ended it (""  *)
(* while it runs), the locals assigned so far, and the reads made so far,  *)
(* each as <<local, kind, the cursor after the read>>.                     *)
(***************************************************************************)
Reader(p) == [pos |-> p, exc |-> "", env |-> <<>>, log |-> <<>>]

\* local = read_type(type, f)
Rd(data, st, local, type) ==
    IF st.exc # "" THEN st
    ELSE Bind(read_type(type, data, st.pos),
              LAMBDA r :
                  [pos |-> r.pos,
                   exc |-> r.exc,
                   env |-> IF r.exc = "" THEN (local :> r.value) @@ st.env
                           ELSE st.env,
                   log |-> Append(st.log, <<local, type, r.pos>>)])

\* The assignments fields[1], fields[2], ... in turn, each <<local, kind>>.
RECURSIVE RdAll(_, _, _)
RdAll(data, st, fields) ==
    IF fields = <<>> \/ st.exc # "" THEN st
    ELSE Bind(Rd(data, st, fields[1][1], fields[1][2]),
              LAMBDA next : RdAll(data, next, Tail(fields)))

\* locals[1], locals[2], ... = values[1], values[2], ...: the targets of one
\* assignment are bound together, once its right-hand side is evaluated.
Assign(st, locals, values) ==
    IF st.exc # "" THEN st
    ELSE [st EXCEPT !.env =
              [l \in {locals[i] : i \in 1..Len(locals)} |->
                  values[CHOOSE i \in 1..Len(locals) : locals[i] = l]] @@ @]

\* One read of a list comprehension: no local is bound by it.
Element(data, st, local, type, acc) ==
    Bind(read_type(type, data, st.pos),
         LAMBDA r :
             [st |-> [pos |-> r.pos,
                      exc |-> r.exc,
                      env |-> st.env,
                      log |-> Append(st.log, <<local, type, r.pos>>)],
              value |-> IF r.exc = "" THEN Append(acc, r.value) ELSE <<>>])

\* [read_type(type, f) for _ in range(cnt)]: the reader after it and the
\* list, <<>> when a read raised.  The reads are logged under local.
RECURSIVE Comprehension(_, _, _, _, _, _)
Comprehension(data, st, local, type, cnt, acc) ==
    IF st.exc # "" \/ cnt <= 0 THEN [st |-> st, value |-> acc]
    ELSE Bind(Element(data, st, local, type, acc),
              LAMBDA next : Comprehension(data, next.st, local, type, cnt - 1,
                                          next.value))

\* [read_type(type, f) for type in types], the reads logged under locals.
RECURSIVE ComprehensionOver(_, _, _, _, _)
ComprehensionOver(data, st, locals, types, acc) ==
    IF st.exc # "" \/ Len(acc) >= Len(types) THEN [st |-> st, value |-> acc]
    ELSE Bind(Element(data, st, locals[Len(acc) + 1], types[Len(acc) + 1],
                      acc),
              LAMBDA next : ComprehensionOver(data, next.st, locals, types,
                                              next.value))

\* local = [read_type(type, f) for _ in range(cnt)]
RdList(data, st, local, type, cnt) ==
    IF st.exc # "" THEN st
    ELSE Bind(Comprehension(data, st, local, type, cnt, <<>>),
              LAMBDA list : Assign(list.st, <<local>>, <<list.value>>))

\* locals[1], locals[2], ... = [read_type(type, f) for type in types]
RdUnpack(data, st, locals, types) ==
    IF st.exc # "" THEN st
    ELSE Bind(ComprehensionOver(data, st, locals, types, <<>>),
              LAMBDA list : Assign(list.st, locals, list.value))

\* locals[1], locals[2], ... = read_batch(Len(locals), type, f)
RdBatch(data, st, locals, type) ==
    RdUnpack(data, st, locals, [i \in 1..Len(locals) |-> type])

\* read_SR(): a count, then that many Int-Double pairs; the reader after it
\* and the list returned.  The reads of the pairs are logged under local.
read_SR(data, st, local) ==
    IF st.exc # "" THEN [st |-> st, value |-> <<>>]
    ELSE Bind(Rd(data, st, "num_idp", "Int"),
              LAMBDA counted :
                  Comprehension(data, counted, local, "IntDoublepair",
                                counted.env["num_idp"], <<>>))

\* Line 149: a, b, c, d = [read_SR() for _ in range(4)]
StarLocals == <<"stars_standard", "stars_taiko", "stars_ctb", "stars_mania">>

RECURSIVE read_SRs(_, _, _)
read_SRs(data, st, acc) ==
    IF st.exc # "" \/ Len(acc) >= Len(StarLocals)
    THEN Assign(st, StarLocals, acc)
    ELSE Bind(read_SR(data, st, StarLocals[Len(acc) + 1]),
              LAMBDA idps : read_SRs(data, idps.st, Append(acc, idps.value)))

\* Lines 171-175: a count, then that many timing points.
read_timingpoints(data, st) ==
    Bind(Rd(data, st, "num_timingpoints", "Int"),
         LAMBDA counted :
             IF counted.exc # "" THEN counted
             ELSE RdList(data, counted, "timingpoints", "Timingpoint",
                         counted.env["num_timingpoints"]))

\* Lines 90-103.
TrivialFields ==
    << <<"artist", "String">>, <<"artist_u", "String">>, <<"song", "String">>,
       <<"song_u", "String">>, <<"creator", "String">>,
       <<"difficulty", "String">>, <<"audio_file", "String">>,
       <<"md5", "String">>, <<"osu_file", "String">>,
       <<"ranked_status", "Byte">>, <<"last_modified", "Long">>,
       <<"num_hitcircles", "Short">>, <<"num_sliders", "Short">>,
       <<"num_spinners", "Short">> >>

\* Line 129: the kinds of ar, cs, hp and od.
bm_diff_types(version) == <<"Single", "Single", "Single", "Single">>

\* Line 131: the targets of the four reads.
DifficultyLocals == <<"ar", "cs", "hp", "od">>

\* Lines 159-161.
TimeFields ==
    << <<"drain_time", "Int">>, <<"total_time", "Int">>,
       <<"preview_time", "Int">> >>

\* Lines 187-198.
MoreFields ==
    << <<"local_offset", "Short">>, <<"stack_leniency", "Single">>,
       <<"gameplay_mode", "Byte">>, <<"source", "String">>,
       <<"tags", "String">>, <<"online_offset", "Short">>,
       <<"font", "String">>, <<"unplayed", "Boolean">>,
       <<"last_played", "Long">>, <<"is_osz2", "Boolean">>,
       <<"beatmap_folder", "String">>, <<"last_checked", "Long">> >>

\* Lines 241-245: what is read after the five flags.
LastFields(version) ==
    << <<"unknown_int_modified", "Int">>, <<"mania_scroll_speed", "Byte">> >>

\* Lines 254-269: Difficulty(osu_file, song, artist, creator, ...).
Difficulty(env) ==
    [path |-> env["osu_file"],
     name |-> env["song"],
     artist |-> env["artist"],
     mapper |-> env["creator"],
     difficulty |-> env["difficulty"],
     ar |-> env["ar"],
     cs |-> env["cs"],
     hp |-> env["hp"],
     od |-> env["od"],
     hash |-> env["md5"],
     api_beatmap_id |-> env["beatmap_id"],
     beatmap_id |-> env["beatmap_id"],
     beatmapset_id |-> env["beatmap_set_id"],
     timing |-> env["timingpoints"]]

\* The reads of lines 90-161.
first_reads(version, data, p) ==
    Bind(RdAll(data, Reader(p), TrivialFields), LAMBDA s1 :
    Bind(RdUnpack(data, s1, DifficultyLocals, bm_diff_types(version)),
         LAMBDA s2 :
    Bind(Rd(data, s2, "slider_velocity", "Double"), LAMBDA s3 :
    Bind(read_SRs(data, s3, <<>>), LAMBDA s6 :
         RdAll(data, s6, TimeFields)))))

\* The reads of parse_beatmap, from the cursor p of a file of this version.
beatmap_reads(version, data, p) ==
    Bind(first_reads(version, data, p), LAMBDA s7 :
    Bind(read_timingpoints(data, s7), LAMBDA s9 :
    Bind(RdBatch(data, s9, <<"beatmap_id", "beatmap_set_id", "thread_id">>,
                 "Int"), LAMBDA s10 :
    Bind(RdBatch(data, s10, <<"grade_standard", "grade_taiko", "grade_ctb",
                              "grade_mania">>, "Byte"), LAMBDA s11 :
    Bind(RdAll(data, s11, MoreFields), LAMBDA s12 :
    Bind(RdBatch(data, s12, <<"ignore_sounds", "ignore_skin",
                              "disable_storyboard", "disable_video",
                              "visual_override">>, "Boolean"), LAMBDA s13 :
         RdAll(data, s13, LastFields(version))))))))

\* parse_beatmap(f): the outcome, and the reads made.
parse_beatmap(version, data, p) ==
    Bind(beatmap_reads(version, data, p),
         LAMBDA st :
             [exc |-> st.exc,
              value |-> IF st.exc = "" THEN Difficulty(st.env) ELSE <<>>,
              pos |-> st.pos,
              log |-> st.log])

(***************************************************************************)
(* src/db/parser.py: load_db, and src/db/model.py: Songs.  A Difficulty    *)
(* object is named by its place in the list beatmaps, so that two objects  *)
(* with equal fields stay two objects.  A dict is the sequence of its      *)
(* [key, value] items in insertion order.                                  *)
(***************************************************************************)
\* Lines 293-298.
HeaderFields ==
    << <<"version", "Int">>, <<"num_folders", "Int">>,
       <<"unlocked", "Boolean">>, <<"unlock_time", "DateTime">>,
       <<"player_name", "String">>, <<"num_maps", "Int">> >>

header_reads(bytes, p) == RdAll(bytes, Reader(p), HeaderFields)

\* An index keyed by the mapset id.
bid_key_mapset(map) == map.beatmapset_id

\* The key a Difficulty is stored under in songs.bid_mapping.
bid_key(map) == map.beatmap_id

\* The key of the mapset a Difficulty is appended to.
mapset_key(map) == map.beatmapset_id

has_key(d, k) == \E i \in 1..Len(d) : d[i].key = k
key_index(d, k) == CHOOSE i \in 1..Len(d) : d[i].key = k

\* An assignment that keeps the value a key already has.
dict_set_first(d, k, v) ==
    IF has_key(d, k) THEN d ELSE Append(d, [key |-> k, value |-> v])

\* d[k] = v
dict_set(d, k, v) ==
    IF has_key(d, k) THEN [d EXCEPT ![key_index(d, k)].value = v]
    ELSE Append(d, [key |-> k, value |-> v])

\* d[k]
dict_get(d, k) == d[key_index(d, k)].value

\* A grouping that opens a new mapset for every beatmap.
setdefault_append_new(d, k, x) == Append(d, [key |-> k, value |-> <<x>>])

\* d.setdefault(k, []).append(x)
setdefault_append(d, k, x) ==
    IF has_key(d, k) THEN [d EXCEPT ![key_index(d, k)].value = Append(@, x)]
    ELSE Append(d, [key |-> k, value |-> <<x>>])

\* The loop of lines 311-313 from the i-th beatmap on.
RECURSIVE group_loop(_, _, _, _)
group_loop(maps, i, bids, sets) ==
    IF i > Len(maps) THEN [bid_mapping |-> bids, mapsets |-> sets]
    ELSE Bind(dict_set(bids, bid_key(maps[i]), i), LAMBDA b :
         Bind(setdefault_append(sets, mapset_key(maps[i]), i), LAMBDA s :
              group_loop(maps, i + 1, b, s)))

\* Song(), with s.difficulties = mapset.
Song(mapset) == [difficulties |-> mapset]

\* Songs.add_song: the song is appended (an empty one after a warning).
add_song(list, song) == Append(list, song)

\* The loop of lines 316-319 from the i-th mapset on.
RECURSIVE songs_loop(_, _, _)
songs_loop(sets, i, list) ==
    IF i > Len(sets) THEN list
    ELSE Bind(add_song(list, Song(sets[i].value)),
              LAMBDA longer : songs_loop(sets, i + 1, longer))

(***************************************************************************)
(* src/db/parser.py, lines 8-80: the file format as the comments give it,  *)
(* used to write the files the decoder is run on.                          *)
(***************************************************************************)
\* The version from which the difficulty values are Singles.
SingleVersion == 20140609

\* n in width bytes, little-endian.
RECURSIVE le_bytes(_, _)
le_bytes(n, width) ==
    IF width = 0 THEN <<>>
    ELSE <<n % 256>> \o le_bytes(n \div 256, width - 1)

ascii(c) == <<c>>

\* 9.0 as a Single, 2.0 and 500.0 as Doubles.
single_9 == <<0, 0, 16, 65>>
double_2 == <<0, 0, 0, 0, 0, 0, 0, 64>>
double_500 == <<0, 0, 0, 0, 0, 64, 127, 64>>

\* One Int-Double pair: 0x08, the mod combination, 0x0b, the star rating.
pair_bytes(mods) == <<8>> \o le_bytes(mods, OSU_INT) \o <<11>> \o double_2

\* One timing point: ms per beat, offset, whether it is uninherited.
timingpoint_bytes(i) == double_500 \o le_bytes(i, OSU_DOUBLE) \o <<1>>

RECURSIVE concat(_)
concat(seqs) == IF seqs = <<>> THEN <<>> ELSE seqs[1] \o concat(Tail(seqs))

\* Int count, then the pairs.
star_bytes(npairs) ==
    le_bytes(npairs, OSU_INT) \o concat([i \in 1..npairs |-> pair_bytes(i)])

\* A difficulty value: a Byte before SingleVersion, a Single from it on.
stat_bytes(version, byte) ==
    IF version < SingleVersion THEN <<byte>> ELSE single_9

\* One beatmap in the documented layout; m gives its ids and counts.
beatmap_bytes(version, m) ==
    concat(<<
        get_string(ascii(65)).value, get_string(<<>>).value,
        get_string(ascii(83)).value, get_string(<<>>).value,
        get_string(ascii(67)).value, get_string(ascii(68)).value,
        get_string(ascii(97)).value, get_string(ascii(104)).value,
        get_string(ascii(111)).value,
        <<4>>,
        le_bytes(1, OSU_SHORT), le_bytes(2, OSU_SHORT), le_bytes(3, OSU_SHORT),
        le_bytes(5, OSU_LONG),
        stat_bytes(version, 9), stat_bytes(version, 4), stat_bytes(version, 5),
        stat_bytes(version, 8),
        double_2,
        IF version < SingleVersion THEN <<>>
        ELSE star_bytes(m.npairs) \o star_bytes(0) \o star_bytes(0)
             \o star_bytes(0),
        le_bytes(60, OSU_INT), le_bytes(61, OSU_INT), le_bytes(62, OSU_INT),
        le_bytes(m.ntiming, OSU_INT),
        concat([i \in 1..m.ntiming |-> timingpoint_bytes(i)]),
        le_bytes(m.beatmap_id, OSU_INT), le_bytes(m.beatmapset_id, OSU_INT),
        le_bytes(9, OSU_INT),
        <<1, 2, 3, 4>>,
        le_bytes(6, OSU_SHORT), single_9, <<0>>,
        get_string(<<>>).value, get_string(ascii(116)).value,
        le_bytes(7, OSU_SHORT), get_string(<<>>).value,
        <<1>>, le_bytes(8, OSU_LONG), <<0>>,
        get_string(ascii(102)).value, le_bytes(9, OSU_LONG),
        <<0, 1, 0, 1, 0>>,
        IF version < SingleVersion THEN le_bytes(10, OSU_SHORT) ELSE <<>>,
        le_bytes(11, OSU_INT), <<12>> >>)

\* The header, then the beatmaps.
db_bytes(version, maps) ==
    concat(<<
        le_bytes(version, OSU_INT), le_bytes(1, OSU_INT), <<1>>,
        le_bytes(0, OSU_DATETIME), get_string(ascii(112)).value,
        le_bytes(Len(maps), OSU_INT) >>)
    \o concat([i \in 1..Len(maps) |-> beatmap_bytes(version, maps[i])])

(***************************************************************************)
(* State.  data, pos, stream: the file object.  call, sent, ret: the last  *)
(* codec call made on it, what an encoder wrote into it, and the call's    *)
(* outcome.  The others are the locals of load_db and the Songs it builds. *)
(***************************************************************************)
VARIABLES
    data, pos, stream,
    call, sent, ret,
    pc, exc, header, beatmaps, bid_mapping, mapsets, songs, trace

vars ==
    <<data, pos, stream, call, sent, ret,
      pc, exc, header, beatmaps, bid_mapping, mapsets, songs, trace,
      quiet_nans>>

codec_vars == <<data, pos, stream, call, sent, ret>>
db_vars == <<pc, exc, header, beatmaps, bid_mapping, mapsets, songs, trace>>

\* All sequences over S of length at most n.
RECURSIVE SeqsUpTo(_, _)
SeqsUpTo(S, n) ==
    IF n = 0 THEN {<<>>}
    ELSE LET shorter == SeqsUpTo(S, n - 1)
         IN shorter \cup {Append(s, x) : s \in {q \in shorter : Len(q) = n - 1},
                                         x \in S}

(***************************************************************************)
(* The codec on its own: a stream is either arbitrary bytes or what one of *)
(* the encoders wrote, and one decoder call is made on it.                 *)
(***************************************************************************)
\* Code points of one, two and three UTF-8 bytes, "A", "e acute", "euro",
\* and a surrogate, which has no UTF-8 encoding.
CodePoints == {65, 233, 8364, 55296}
Strings == SeqsUpTo(CodePoints, MaxStrLen)

\* Integers of one to five ULEB128 bytes.
UlebInputs ==
    (0..MaxUleb) \cup {16383, 16384, 2097151, 2097152, 268435455, 268435456,
                       2147483647}

\* Stream bytes: both string indicators, another indicator, a letter, and the
\* two bytes of "e acute" (both with the high bit set).
StreamBytes == {0, 1, 5, 11, 65, 169, 195}

\* 1, 2, ..., n: a stream long enough for the composite kinds.
Ramp(n) == [i \in 1..n |-> i]

\* Singles that are NaNs: a signalling one, and the quiet one of it.
NanStreams == {<<1, 0, 128, 127>>, <<1, 0, 192, 127>>}

\* Streams whose integers fit TLC's 32 bits.
Streams ==
    {s \in SeqsUpTo(StreamBytes, MaxStream) : \A i \in 4..Len(s) : s[i] < 128}
    \cup {Ramp(n) : n \in 0..MaxRamp}
    \cup NanStreams

UnknownKinds == {"ULEB128", "Float"}

NoCall == [op |-> "", type |-> "", cnt |-> 0]

\* An outcome as ret keeps it: the value filed under the call it answers
\* (values of different kinds cannot be compared with each other).
Filed(c, outcome) == [outcome EXCEPT !.value = (c :> @)]
NoRet == Filed(NoCall, Return(<<>>, 0))

\* The value the last call returned.
RetValue == ret.value[call]

InitDb(at) ==
    /\ pc = at
    /\ exc = ""
    /\ header = <<>>
    /\ beatmaps = <<>>
    /\ bid_mapping = <<>>
    /\ mapsets = <<>>
    /\ songs = <<>>
    /\ trace = <<>>
    /\ quiet_nans \in BOOLEAN

InitCodec ==
    /\ data \in Streams
    /\ pos = 0
    /\ stream = "open"
    /\ call = NoCall
    /\ sent = [kind |-> "raw"]
    /\ ret = NoRet
    /\ InitDb("codec")

\* An encoder writes into a fresh, empty stream.
Fresh == call = NoCall /\ data = <<>> /\ sent.kind = "raw"

Get_uleb128 ==
    /\ Fresh
    /\ \E n \in UlebInputs :
        /\ data' = get_uleb128(n)
        /\ sent' = [kind |-> "uleb", n |-> n]
    /\ call' = [NoCall EXCEPT !.op = "get_uleb128"]
    /\ UNCHANGED <<pos, stream, ret>>
    /\ UNCHANGED db_vars
    /\ UNCHANGED quiet_nans

Get_string ==
    /\ Fresh
    /\ call' = [NoCall EXCEPT !.op = "get_string"]
    /\ \E s \in Strings :
        \E written \in {get_string(s)} :
            /\ data' = written.value
            /\ ret' = Filed(call', written)
            /\ sent' = [kind |-> "string", s |-> s]
    /\ UNCHANGED <<pos, stream>>
    /\ UNCHANGED db_vars
    /\ UNCHANGED quiet_nans

\* A decoder call on the stream, made once, at its start.
Decode(op, type, cnt, outcome) ==
    /\ pos = 0
    /\ ret.exc = ""
    /\ call.op \notin {"parse_uleb128", "parse_string", "read_type", "read_batch"}
    /\ call' = [op |-> op, type |-> type, cnt |-> cnt]
    /\ ret' = Filed(call', outcome)
    /\ pos' = outcome.pos
    /\ UNCHANGED <<data, stream, sent>>
    /\ UNCHANGED db_vars
    /\ UNCHANGED quiet_nans

Parse_uleb128 ==
    /\ sent.kind \in {"raw", "uleb"}
    /\ Decode("parse_uleb128", "", 0, parse_uleb128(data, pos))

Parse_string ==
    /\ sent.kind \in {"raw", "string"}
    /\ Decode("parse_string", "", 0, parse_string(data, pos))

Read_type ==
    /\ sent.kind = "raw"
    /\ \E type \in Kinds \cup UnknownKinds :
        Decode("read_type", type, 1, read_type(type, data, pos))

Read_batch ==
    /\ sent.kind = "raw"
    /\ \E type \in Kinds \cup UnknownKinds, cnt \in 0..MaxBatch :
        Decode("read_batch", type, cnt, read_batch(cnt, type, data, pos))

NextCodec ==
    \/ Get_uleb128
    \/ Get_string
    \/ Parse_uleb128
    \/ Parse_string
    \/ Read_type
    \/ Read_batch

SpecCodec == InitCodec /\ [][NextCodec]_vars


(***************************************************************************)
(* load_db, run on one file.                                               *)
(***************************************************************************)
Versions == {20140608, 20140609, 20150203}
BeatmapIds == {41, 42}
MapsetIds == {7, 8}

\* Lists of beatmaps that differ in their ids.
IdLists ==
    SeqsUpTo([beatmap_id : BeatmapIds, beatmapset_id : MapsetIds,
              ntiming : {1}, npairs : {1}], MaxMaps)

\* Lists of beatmaps that differ in their counts of timing points and pairs.
CountLists ==
    SeqsUpTo([beatmap_id : {42}, beatmapset_id : {7},
              ntiming : 0..MaxTimingpoints, npairs : 0..MaxPairs], 2)

WholeFiles ==
    {db_bytes(v, maps) : v \in Versions, maps \in IdLists \cup CountLists}

\* Every proper prefix of a file.
Prefixes(bytes) == {SubSeq(bytes, 1, n) : n \in 0..(Len(bytes) - 1)}

\* A file of one beatmap, cut short at every length.
CutFiles ==
    LET m == [beatmap_id |-> 42, beatmapset_id |-> 7, ntiming |-> 1,
              npairs |-> 1]
    IN UNION {Prefixes(db_bytes(v, <<m>>)) : v \in {20140608, 20150203}}

Files == WholeFiles \cup CutFiles

Init ==
    /\ data \in Files
    /\ pos = 0
    /\ stream = "none"
    /\ call = NoCall
    /\ sent = [kind |-> "raw"]
    /\ ret = NoRet
    /\ InitDb("start")

\* Line 287: fobj = open(path, "rb"), and line 289.
Open ==
    /\ pc = "start"
    /\ stream' = "open"
    /\ pc' = "header"
    /\ UNCHANGED <<data, pos, call, sent, ret, quiet_nans>>
    /\ UNCHANGED <<exc, header, beatmaps, bid_mapping, mapsets, songs, trace>>

\* Lines 293-298: the six header fields; an exception leaves load_db.
ReadHeader ==
    /\ pc = "header"
    /\ \E st \in {header_reads(data, pos)} :
          /\ pos' = st.pos
          /\ exc' = st.exc
          /\ header' = IF st.exc = "" THEN st.env ELSE header
          /\ pc' = IF st.exc = "" THEN "maps" ELSE "raised"
    /\ UNCHANGED <<data, stream, call, sent, ret, quiet_nans>>
    /\ UNCHANGED <<beatmaps, bid_mapping, mapsets, songs, trace>>

\* Line 307: one more parse_beatmap(fobj) of the list comprehension.
ParseBeatmap ==
    /\ pc = "maps"
    /\ Len(beatmaps) < header["num_maps"]
    /\ \E r \in {parse_beatmap(header["version"], data, pos)} :
          /\ pos' = r.pos
          /\ exc' = r.exc
          /\ trace' = r.log
          /\ beatmaps' = IF r.exc = "" THEN Append(beatmaps, r.value)
                         ELSE beatmaps
          /\ pc' = IF r.exc = "" THEN "maps" ELSE "raised"
    /\ UNCHANGED <<data, stream, call, sent, ret, quiet_nans>>
    /\ UNCHANGED <<header, bid_mapping, mapsets, songs>>

\* Lines 310-313: the index and the mapsets, once every beatmap is read.
GroupMaps ==
    /\ pc = "maps"
    /\ Len(beatmaps) >= header["num_maps"]
    /\ \E g \in {group_loop(beatmaps, 1, <<>>, <<>>)} :
          /\ bid_mapping' = g.bid_mapping
          /\ mapsets' = g.mapsets
    /\ pc' = "songs"
    /\ UNCHANGED <<data, pos, stream, call, sent, ret, quiet_nans>>
    /\ UNCHANGED <<exc, header, beatmaps, songs, trace>>

\* What becomes of the file object once the frame of load_db, the only
\* reference to it, is gone: load_db never closes it, the interpreter does
\* when it frees the object, at once where it counts references, later
\* where it does not.
Finalized == {"open", "closed"}

\* Lines 316-321: a Song for each mapset, and the return, which drops the
\* frame and with it fobj.
CreateSongs ==
    /\ pc = "songs"
    /\ songs' = songs_loop(mapsets, 1, <<>>)
    /\ pc' = "returned"
    /\ stream' \in Finalized
    /\ UNCHANGED <<data, pos, call, sent, ret, quiet_nans>>
    /\ UNCHANGED <<exc, header, beatmaps, bid_mapping, mapsets, trace>>

\* After load_db: the interpreter frees the file object it left open, once
\* nothing refers to it (an exception that left load_db keeps the frame, and
\* with it fobj, for as long as its traceback is kept).
Release ==
    /\ pc \in {"returned", "raised"}
    /\ stream = "open"
    /\ stream' = "closed"
    /\ UNCHANGED <<data, pos, call, sent, ret, quiet_nans>>
    /\ UNCHANGED db_vars

Next ==
    \/ Open
    \/ ReadHeader
    \/ ParseBeatmap
    \/ GroupMaps
    \/ CreateSongs
    \/ Release

Spec == Init /\ [][Next]_vars

(***************************************************************************)
(* The codec's properties, under SpecCodec.                                *)
(***************************************************************************)
\* The string given to get_string has a UTF-8 encoding: it holds no
\* surrogate.
SentText == sent.kind = "string" /\ utf8_encode(sent.s).ok

\* C1: what get_string wrote for a non-empty s that has a UTF-8 encoding is
\* 0x0b, the ULEB128 of the byte length of the UTF-8 payload, and the
\* payload; parse_string on it returns s and consumes every byte written.
StringRoundTrip ==
    /\ (SentText /\ sent.s # <<>>) =>
           data = <<11>> \o get_uleb128(Len(utf8_encode(sent.s).bs))
                         \o utf8_encode(sent.s).bs
    /\ (SentText /\ call.op = "parse_string") =>
           (ret.exc = "" /\ RetValue = sent.s /\ pos = Len(data))

\* C2: get_uleb128(n) emits the 7-bit groups of n, lowest first, with the
\* high bit set on every byte but the last; parse_uleb128 on them returns n
\* and consumes exactly those bytes.
Uleb128RoundTrip ==
    sent.kind = "uleb" =>
        /\ Len(data) >= 1
        /\ \A i \in 1..Len(data) :
               /\ (data[i] >= 128) <=> (i < Len(data))
               /\ data[i] % 128 = (sent.n \div (128 ^ (i - 1))) % 128
        /\ call.op = "parse_uleb128" =>
               (ret.exc = "" /\ ~ret.none /\ RetValue = sent.n
                /\ pos = Len(data))

\* A three-byte integer was encoded and decoded.
Uleb128RoundTripWitness ==
    /\ sent.kind = "uleb"
    /\ sent.n = 16384
    /\ Len(data) = 3
    /\ call.op = "parse_uleb128"
    /\ RetValue = 16384

\* The bytes each fixed-width kind takes.
Width(type) ==
    CASE type \in {"Byte", "Boolean"} -> 1
      [] type = "Short" -> 2
      [] type \in {"Int", "Single"} -> 4
      [] type \in {"Long", "Double", "DateTime"} -> 8
      [] type = "IntDoublepair" -> 14
      [] type = "Timingpoint" -> 17

\* The stream ends inside a ULEB128: no byte of it has the high bit clear.
UlebCut(bytes) == \A i \in 1..Len(bytes) : bytes[i] >= 128

\* The stream ends inside a string: before the indicator, inside the length,
\* or before the last byte of the payload.
StringCut(bytes) ==
    \/ bytes = <<>>
    \/ /\ bytes[1] = 11
       /\ \/ UlebCut(Tail(bytes))
          \/ LET n == parse_uleb128(bytes, 1)
             IN n.pos + n.value > Len(bytes)

\* C3: a read from a stream that holds fewer bytes than the field requires
\* fails; it returns no value.
TruncatedReadFails ==
    /\ (call.op = "read_type" /\ call.type \in Kinds \ {"String"}
        /\ Len(data) < Width(call.type)) => ret.exc # ""
    /\ (/\ \/ call.op = "parse_string"
           \/ call.op = "read_type" /\ call.type = "String"
        /\ StringCut(data)) => ret.exc # ""
    /\ (call.op = "parse_uleb128" /\ UlebCut(data)) => ret.exc # ""

\* C9: read_type of a kind the codec does not know fails, and so does a
\* read_batch of one or more values of such a kind.
UnknownKindFails ==
    (/\ call.op \in {"read_type", "read_batch"}
     /\ call.type \notin Kinds
     /\ call.cnt > 0) => ret.exc # ""

\* C10: parse_string reads one indicator byte; 0 yields the empty string and
\* consumes nothing more, 11 yields the payload of the declared length when
\* the stream holds it, any other value yields the malformed-string error.
StringIndicator ==
    (call.op = "parse_string" /\ data # <<>>) =>
        /\ data[1] = 0 =>
               (ret.exc = "" /\ ~ret.none /\ RetValue = <<>> /\ pos = 1)
        /\ data[1] = 11 =>
               LET n == parse_uleb128(data, 1)
               IN (n.exc = "" /\ n.pos + n.value <= Len(data)) =>
                      /\ ret.exc \in {"", "UnicodeDecodeError"}
                      /\ pos = n.pos + n.value
                      /\ ret.exc = "" =>
                             utf8_encode(RetValue).bs
                                 = SubSeq(data, n.pos + 1, n.pos + n.value)
        /\ data[1] \notin {0, 11} => (ret.exc = "ValueError" /\ pos = 1)

\* A string whose indicator is 0x05 was refused.
StringIndicatorWitness ==
    /\ call.op = "parse_string"
    /\ data # <<>>
    /\ data[1] = 5
    /\ ret.exc = "ValueError"

(***************************************************************************)
(* The decoder's properties, under Spec.                                   *)
(***************************************************************************)
IsPrefix(s, whole) == Len(s) <= Len(whole) /\ SubSeq(whole, 1, Len(s)) = s

\* The reads of counts and list elements.
ListLocals ==
    {"num_idp", "stars_standard", "stars_taiko", "stars_ctb", "stars_mania",
     "timingpoints"}

\* The locals read, the reads of ListLocals left out.
ScalarLocals(log) ==
    LET kept == SelectSeq(log, LAMBDA e : e[1] \notin ListLocals)
    IN [i \in 1..Len(kept) |-> kept[i][1]]

\* The fields of a beatmap outside its lists, in the order of the format.
FormatOrder ==
    <<"artist", "artist_u", "song", "song_u", "creator", "difficulty",
      "audio_file", "md5", "osu_file", "ranked_status", "num_hitcircles",
      "num_sliders", "num_spinners", "last_modified", "ar", "cs", "hp", "od",
      "slider_velocity", "drain_time", "total_time", "preview_time",
      "num_timingpoints", "beatmap_id", "beatmap_set_id", "thread_id",
      "grade_standard", "grade_taiko", "grade_ctb", "grade_mania",
      "local_offset", "stack_leniency", "gameplay_mode", "source", "tags",
      "online_offset", "font", "unplayed", "last_played", "is_osz2",
      "beatmap_folder", "last_checked", "ignore_sounds", "ignore_skin",
      "disable_storyboard", "disable_video", "visual_override",
      "unknown_int_modified", "mania_scroll_speed">>

\* The kinds of the first fourteen fields.
FormatKinds ==
    <<"String", "String", "String", "String", "String", "String", "String",
      "String", "String", "Byte", "Short", "Short", "Short", "Long">>

\* C4: the fields of a beatmap are read in the order of the format: nine
\* Strings, the ranked status (Byte), the three counts (Short), the last
\* modification time (Long), and so on; none before one that precedes it.
FieldOrder ==
    /\ IsPrefix(ScalarLocals(trace), FormatOrder)
    /\ \A i \in 1..Min(Len(trace), Len(FormatKinds)) :
           trace[i][2] = FormatKinds[i]

\* C5: in a file of a version below 20140609 ar, cs, hp and od are read as
\* Bytes and a Short is read before the last Int; from 20140609 on they are
\* read as Singles and no such Short is read.
VersionBranch ==
    trace # <<>> =>
        LET legacy == header["version"] < SingleVersion
        IN \A i \in 1..Len(trace) :
               /\ trace[i][1] \in {"ar", "cs", "hp", "od"} =>
                      trace[i][2] = IF legacy THEN "Byte" ELSE "Single"
               /\ trace[i][1] = "unknown_int_modified" =>
                      (legacy <=> (i > 1 /\ trace[i - 1][2] = "Short"))

\* The Difficulty objects held by the songs.
Held == UNION {{songs[s].difficulties[j] : j \in 1..Len(songs[s].difficulties)}
               : s \in 1..Len(songs)}

\* C6 as stated: every Difficulty held by a song is the index's entry for
\* its own beatmap_id.
IndexHoldsEveryRecord ==
    pc = "returned" =>
        \A r \in Held :
            /\ has_key(bid_mapping, beatmaps[r].beatmap_id)
            /\ dict_get(bid_mapping, beatmaps[r].beatmap_id) = r

\* C6 as amended: the index has one entry for each beatmap_id, stored under
\* that id, and for every Difficulty r held by a song the entry for r's
\* beatmap_id is the last Difficulty of the file with that id: r itself
\* unless a later one repeats the id.
IndexHoldsLastRecord ==
    pc = "returned" =>
        /\ \A i, j \in 1..Len(bid_mapping) :
               bid_mapping[i].key = bid_mapping[j].key => i = j
        /\ \A i \in 1..Len(bid_mapping) :
               /\ bid_mapping[i].value \in Held
               /\ beatmaps[bid_mapping[i].value].beatmap_id = bid_mapping[i].key
        /\ \A r \in Held :
               /\ has_key(bid_mapping, beatmaps[r].beatmap_id)
               /\ dict_get(bid_mapping, beatmaps[r].beatmap_id) >= r
               /\ (\A later \in (r + 1)..Len(beatmaps) :
                       beatmaps[later].beatmap_id # beatmaps[r].beatmap_id)
                   => dict_get(bid_mapping, beatmaps[r].beatmap_id) = r

\* Three beatmaps were decoded and indexed, the first two with one id.
IndexHoldsLastRecordWitness ==
    /\ pc = "returned"
    /\ Len(beatmaps) = 3
    /\ beatmaps[1].beatmap_id = beatmaps[2].beatmap_id
    /\ beatmaps[3].beatmap_id # beatmaps[1].beatmap_id
    /\ Len(bid_mapping) = 2
    /\ dict_get(bid_mapping, beatmaps[1].beatmap_id) = 2

\* C7: every song is non-empty, holds Difficulty objects of one mapset id
\* that no other song has, in file order; the songs are in the order their
\* mapset ids first appear in the file; every Difficulty is in one song.
Grouping ==
    pc = "returned" =>
        /\ \A s \in 1..Len(songs) :
               LET ds == songs[s].difficulties
               IN /\ ds # <<>>
                  /\ \A j, k \in 1..Len(ds) :
                         /\ beatmaps[ds[j]].beatmapset_id
                                = beatmaps[ds[k]].beatmapset_id
                         /\ j < k => ds[j] < ds[k]
        /\ \A s, u \in 1..Len(songs) :
               s < u =>
                   /\ beatmaps[songs[s].difficulties[1]].beatmapset_id
                          # beatmaps[songs[u].difficulties[1]].beatmapset_id
                   /\ songs[s].difficulties[1] < songs[u].difficulties[1]
        /\ Held = 1..Len(beatmaps)

\* Three beatmaps of mapsets a, b, a were grouped into two songs.
GroupingWitness ==
    /\ pc = "returned"
    /\ Len(songs) = 2
    /\ songs[1].difficulties = <<1, 3>>
    /\ songs[2].difficulties = <<2>>

\* C8: once load_db has returned or raised, the stream it opened is closed.
StreamReleased == pc \in {"returned", "raised"} => stream = "closed"

(***************************************************************************)
(* The timing points of the beatmap parse_beatmap read last.               *)
(***************************************************************************)
\* The places in the log of the reads of a local.
LogAt(local) == {i \in 1..Len(trace) : trace[i][1] = local}

\* The place in the log of the count of timing points.
CountAt == CHOOSE i \in LogAt("num_timingpoints") : TRUE

\* The cursor after the count: where the first timing point starts.
TimingStart == trace[CountAt][3]

\* The count field: the four bytes before TimingStart, little-endian.
TimingCount == int_from_bytes(SubSeq(data, TimingStart - 3, TimingStart))

\* The bytes of one timing point: Double, Double, Boolean.
TimingpointWidth == OSU_DOUBLE + OSU_DOUBLE + OSU_BOOLEAN

\* The count was read from four bytes, the stream holds that many timing
\* points after it, and parse_beatmap went on to the read that follows them.
TimingPointsPresent ==
    /\ LogAt("num_timingpoints") # {}
    /\ CountAt > 1
    /\ TimingStart = trace[CountAt - 1][3] + OSU_INT
    /\ TimingStart + TimingpointWidth * TimingCount <= Len(data)
    /\ \E i \in CountAt..Len(trace) : trace[i][1] \notin ListLocals

\* The j-th timing point of the file, from its bytes.
TimingpointAt(j) ==
    LET at == TimingStart + TimingpointWidth * (j - 1)
    IN << struct_unpack("d", SubSeq(data, at + 1, at + 8)),
          struct_unpack("d", SubSeq(data, at + 9, at + 16)),
          data[at + 17] # 0 >>

\* Exactly TimingCount timing points are read, one after the other, right
\* after the count; the read after them is that of beatmap_id, an Int; and
\* the Difficulty built holds them in the order of the file.
TimingPointsInOrder ==
    /\ LogAt("timingpoints") = (CountAt + 1)..(CountAt + TimingCount)
    /\ \A i \in LogAt("timingpoints") : trace[i][2] = "Timingpoint"
    /\ trace[CountAt + TimingCount + 1][1] = "beatmap_id"
    /\ trace[CountAt + TimingCount + 1][2] = "Int"
    /\ exc = "" =>
           beatmaps[Len(beatmaps)].timing
               = [j \in 1..TimingCount |-> TimingpointAt(j)]

\* The cursor at which beatmap_id is read.
TimingEnd == trace[CountAt + TimingCount][3]

\* C11 as stated: a count of k is followed by the reads of exactly k timing
\* points, kept in file order, which consume 16k+1 bytes and leave the
\* cursor where beatmap_id is read next.
TimingPointsConsume16k1 ==
    TimingPointsPresent =>
        /\ TimingPointsInOrder
        /\ TimingEnd = TimingStart + 16 * TimingCount + 1

\* C11 as amended: a count of k is followed by the reads of exactly k timing
\* points, kept in file order, each of 17 bytes (Double, Double, Boolean),
\* which consume 17k bytes and leave the cursor where beatmap_id is read
\* next.
TimingPointsConsume17k ==
    TimingPointsPresent =>
        /\ TimingPointsInOrder
        /\ \A j \in 1..TimingCount :
               trace[CountAt + j][3] = TimingStart + TimingpointWidth * j
        /\ TimingEnd = TimingStart + TimingpointWidth * TimingCount

\* A beatmap with two timing points was decoded and load_db returned.
TimingPointsConsume17kWitness ==
    /\ pc = "returned"
    /\ TimingPointsPresent
    /\ TimingCount = 2
    /\ Len(beatmaps[Len(beatmaps)].timing) = 2
    /\ beatmaps[Len(beatmaps)].timing[1] # beatmaps[Len(beatmaps)].timing[2]
    /\ TimingEnd = TimingStart + 34

\* The beatmaps of the file that have the beatmap_id of the i-th.
SameId(i) ==
    {j \in 1..Len(beatmaps) : beatmaps[j].beatmap_id = beatmaps[i].beatmap_id}

\* The last of a non-empty set of places in the file.
Last(S) == CHOOSE j \in S : \A other \in S : other <= j

\* The places at which the songs hold the Difficulty r.
HeldAt(r) ==
    {<<s, j>> \in (1..Len(songs)) \X (1..Len(beatmaps)) :
        j <= Len(songs[s].difficulties) /\ songs[s].difficulties[j] = r}

\* C12: when several beatmaps have one beatmap_id, the index entry of that
\* id is the last of them in the file, every one of them is held by one
\* song, that of its mapset, and no exception is raised: load_db raises
\* only from a read, before the index and the mapsets are built.
LastWriteWins ==
    /\ pc = "returned" =>
           \A i \in 1..Len(beatmaps) :
               /\ dict_get(bid_mapping, beatmaps[i].beatmap_id)
                      = Last(SameId(i))
               /\ \A j \in SameId(i) :
                      /\ Cardinality(HeldAt(j)) = 1
                      /\ \A at \in HeldAt(j) :
                             beatmaps[songs[at[1]].difficulties[1]].beatmapset_id
                                 = beatmaps[j].beatmapset_id
    /\ pc \in {"songs", "returned"} =>
           (exc = "" /\ Len(beatmaps) = header["num_maps"])
    /\ pc = "raised" => (exc # "" /\ bid_mapping = <<>> /\ mapsets = <<>>)

\* Three beatmaps of one beatmap_id, in two mapsets, were decoded: the index
\* has the third, and the songs hold all three.
LastWriteWinsWitness ==
    /\ pc = "returned"
    /\ Len(beatmaps) = 3
    /\ SameId(1) = {1, 2, 3}
    /\ Len(bid_mapping) = 1
    /\ dict_get(bid_mapping, beatmaps[1].beatmap_id) = 3
    /\ Len(songs) = 2
    /\ Held = {1, 2, 3}
====
